---- MODULE Spec2Model ----
(***************************************************************************)
(* State-machine model of PositionControllerS1                             *)
(* (src/position_controller_s1.py): the daily band refresh, the trend      *)
(* analysis, the per-tick rebalance decision and the adjustment executor.  *)
(*                                                                         *)
(* Numbers.  Python floats are modelled as exact rationals <<n, d>> with   *)
(* d > 0, kept in lowest terms; Python's None is the empty tuple <<>>.     *)
(* A tri-state signal is one of the strings "None", "True", "False".       *)
(* Time is counted in tenths of an hour.                                   *)
(*                                                                         *)
(* Atomicity.  The controller is a set of coroutines on one event loop:    *)
(* code between two awaits of a collaborator runs atomically, and the host *)
(* may run (update trader.current_price, move the grid's base price) while *)
(* a collaborator call is pending.  One action of the model is the code    *)
(* from one suspension point to the next.                                  *)
(***************************************************************************)
EXTENDS Integers, Sequences, FiniteSets, TLC

(***************************************************************************)
(* Bounds of the model                                                     *)
(***************************************************************************)
\* config.S1_LOOKBACK as configured in the model (the code's default is 52)
s1_lookback == 2
\* the clock stops advancing after MaxDays refresh intervals
MaxDays == 3

(***************************************************************************)
(* Rational arithmetic standing for Python float arithmetic                *)
(***************************************************************************)
None == <<>>

Known(x) == x # None

Abs(n) == IF n < 0 THEN 0 - n ELSE n

RECURSIVE GCD(_, _)
GCD(a, b) == IF b = 0 THEN a ELSE GCD(b, a % b)

Norm(n, d) ==
    IF n = 0 THEN <<0, 1>>
    ELSE LET g == GCD(Abs(n), d) IN <<n \div g, d \div g>>

R(n) == <<n, 1>>

RSub(a, b) == Norm(a[1] * b[2] - b[1] * a[2], a[2] * b[2])

RMul(a, b) == Norm(a[1] * b[1], a[2] * b[2])

\* a / b for b > 0
RDiv(a, b) == Norm(a[1] * b[2], a[2] * b[1])

\* an/ad < bn/bd for positive numerators, by comparing the continued
\* fractions (no product is formed, so 1e-9 compares without overflow)
RECURSIVE PosLess(_, _, _, _)
PosLess(an, ad, bn, bd) ==
    LET qa == an \div ad
        qb == bn \div bd
        ra == an % ad
        rb == bn % bd
    IN  IF qa # qb THEN qa < qb
        ELSE IF rb = 0 THEN FALSE
        ELSE IF ra = 0 THEN TRUE
        ELSE PosLess(bd, rb, ad, ra)

\* a < b
RLess(a, b) ==
    IF a[1] <= 0 \/ b[1] <= 0
    THEN IF a[1] < 0 /\ b[1] < 0
         THEN PosLess(0 - b[1], b[2], 0 - a[1], a[2])
         ELSE IF a[1] <= 0 /\ b[1] <= 0 THEN a[1] < b[1]
         ELSE a[1] <= 0
    ELSE PosLess(a[1], a[2], b[1], b[2])

RLeq(a, b) == ~RLess(b, a)

\* Python's min(a, b): b only when b < a
PyMin(a, b) == IF RLess(b, a) THEN b ELSE a

\* math.floor(a * factor) / factor
FloorTo(a, factor) == Norm((a[1] * factor) \div a[2], factor)

\* Python's truth value of a number-or-None: None and 0 are false
Falsy(x) == x = None \/ x[1] = 0

\* seq[start:stop] of Python, for start, stop possibly negative
PySlice(seq, start, stop) ==
    LET n == Len(seq)
        clamp(i) == IF i < 0 THEN (IF n + i < 0 THEN 0 ELSE n + i)
                    ELSE (IF i > n THEN n ELSE i)
        lo == clamp(start)
        hi == clamp(stop)
    IN  IF hi <= lo THEN <<>> ELSE SubSeq(seq, lo + 1, hi)

RECURSIVE MaxOf(_)
MaxOf(s) ==
    IF Len(s) = 1 THEN s[1]
    ELSE LET m == MaxOf(Tail(s)) IN IF RLess(s[1], m) THEN m ELSE s[1]

RECURSIVE MinOf(_)
MinOf(s) ==
    IF Len(s) = 1 THEN s[1]
    ELSE LET m == MinOf(Tail(s)) IN IF RLess(m, s[1]) THEN m ELSE s[1]

(***************************************************************************)
(* Program constants                                                       *)
(***************************************************************************)
s1_sell_target_pct == <<1, 2>>
s1_buy_target_pct == <<7, 10>>
\* 23.9 hours, in tenths of an hour
daily_update_interval == 239
ema_200_period == 200
\* the fallback rounding keeps 3 decimals: factor = 10 ** 3
FallbackFactor == 1000
DefaultMinNotional == 10
\* the default minimum amount is 1 / 10000
DefaultMinAmountDen == 10000
\* the dust epsilon is 1 / 1000000000
EpsilonDen == 1000000000
Epsilon == <<1, EpsilonDen>>

(***************************************************************************)
(* State                                                                   *)
(***************************************************************************)
VARIABLES
    s1_daily_high,                   \* self.s1_daily_high
    s1_daily_low,                    \* self.s1_daily_low
    s1_last_data_update_ts,          \* self.s1_last_data_update_ts
    trend_status,                    \* self.trend_status
    allow_replenish_based_on_trend,  \* self.allow_replenish_based_on_trend
    current_price,                   \* trader.current_price (owned by the host)
    base_price,                      \* the grid strategy's base price (host)
    now,                             \* time.time()
    pc,                              \* where the running coroutine is suspended
    upd,                             \* locals of update_daily_s1_levels
    tick,                            \* locals of check_and_execute
    prev                             \* history: the last tick that had ended
                                     \* when the running call began

vars == <<s1_daily_high, s1_daily_low, s1_last_data_update_ts, trend_status,
          allow_replenish_based_on_trend, current_price, base_price,
          now, pc, upd, tick, prev>>

band == <<s1_daily_high, s1_daily_low, s1_last_data_update_ts>>
trend == <<trend_status, allow_replenish_based_on_trend>>
controller == <<band, trend, pc, upd, tick>>

\* written: the keys of self.trend_status assigned in the running call;
\* changed: whether one of these assignments changed the stored value
NoUpd == [klines |-> <<>>, fetched |-> "no", price |-> None, written |-> {},
          changed |-> FALSE, outcome |-> "none"]

\* a trader without _adjust_amount_precision
NoAdjust == [has |-> FALSE, raises |-> FALSE, factor |-> 1]

\* a trader without symbol_info
NoInfo == [present |-> FALSE, has_cost |-> FALSE, cost_min |-> None,
           has_amount |-> FALSE, amount_min |-> None]

NoTick == [price |-> None, pct |-> None, pv |-> None, total |-> None,
           bal |-> None, gathered |-> FALSE, action |-> "NONE", amount |-> R(0),
           executor |-> FALSE, adjusted |-> None, xprice |-> None,
           notional |-> None, info |-> NoInfo,
           calls |-> 0, side |-> "NONE", result |-> "none", outcome |-> "none"]

\* no tick has ended yet
NoPrev == [tick |-> NoTick, high |-> None, low |-> None,
           trend_status |-> [short_ema_bullish |-> "None", macd_bullish |-> "None",
                             long_ema_bullish |-> "None"],
           allow |-> FALSE]

Init ==
    /\ s1_daily_high = None
    /\ s1_daily_low = None
    /\ s1_last_data_update_ts = 0
    /\ trend_status = [short_ema_bullish |-> "None", macd_bullish |-> "None",
                       long_ema_bullish |-> "None"]
    /\ allow_replenish_based_on_trend = FALSE
    /\ current_price = None
    /\ base_price = R(30)
    /\ now = daily_update_interval
    /\ pc = "idle"
    /\ upd = NoUpd
    /\ tick = NoTick
    /\ prev = NoPrev

(***************************************************************************)
(* Level tracker: _fetch_and_calculate_s1_levels                           *)
(* A candle is <<high, low>> (fields 2 and 3 of an OHLCV row); a field     *)
(* that float() cannot parse is None.                                      *)
(***************************************************************************)
\* a slice that keeps the candle in progress: klines[-self.s1_lookback:]
MutRelevantKlines(klines) == PySlice(klines, 0 - s1_lookback, Len(klines))

\* klines[-(self.s1_lookback + 1) : -1]
RelevantKlines(klines) == PySlice(klines, 0 - (s1_lookback + 1), 0 - 1)

Highs(ks) == [i \in 1..Len(ks) |-> ks[i][1]]
Lows(ks) == [i \in 1..Len(ks) |-> ks[i][2]]
AllKnown(s) == \A i \in 1..Len(s) : Known(s[i])

\* max(float(k[2]) for k in relevant_klines)
NewHigh(relevant) == MaxOf(Highs(relevant))

\* min(float(k[3]) for k in relevant_klines)
NewLow(relevant) == MinOf(Lows(relevant))

\* the two levels assigned to each other's attribute
MutLevelsAfter(klines) ==
    LET relevant == PySlice(klines, 0 - (s1_lookback + 1), 0 - 1)
    IN  IF Len(klines) < s1_lookback + 1
           \/ ~AllKnown(Highs(relevant)) \/ ~AllKnown(Lows(relevant))
        THEN <<s1_daily_high, s1_daily_low, s1_last_data_update_ts, FALSE>>
        ELSE <<MinOf(Lows(relevant)), MaxOf(Highs(relevant)), now, TRUE>>

\* The levels after the fetch returned klines: <<high, low, ts, updated>>.
\* A field that does not parse raises inside max()/min(): the assignments
\* before it have happened, the ones after it have not.
LevelsAfter(klines) ==
    LET relevant == RelevantKlines(klines)
        keep == <<s1_daily_high, s1_daily_low, s1_last_data_update_ts, FALSE>>
    IN  IF Len(klines) = 0 \/ Len(klines) < s1_lookback + 1 THEN keep
        ELSE IF Len(relevant) < s1_lookback THEN keep
        ELSE IF ~AllKnown(Highs(relevant)) THEN keep
        ELSE IF ~AllKnown(Lows(relevant))
             THEN <<NewHigh(relevant), s1_daily_low, s1_last_data_update_ts, FALSE>>
        ELSE <<NewHigh(relevant), NewLow(relevant), now, TRUE>>

(***************************************************************************)
(* update_daily_s1_levels                                                  *)
(***************************************************************************)
\* a refresh test that lets the interval elapse by more than its length
MutRefreshDue == now - s1_last_data_update_ts > daily_update_interval

\* now - self.s1_last_data_update_ts >= self.daily_update_interval
RefreshDue == now - s1_last_data_update_ts >= daily_update_interval

\* a call that ends where the refresh is not due
MutFirstAwait == IF RefreshDue THEN "u_levels" ELSE "idle"

\* The first await of the call: the refresh if it is due (line 90), and
\* otherwise the trend analysis, which is outside the if and begins with
\* trader.get_ma_data (line 97)
FirstAwait == IF RefreshDue THEN "u_levels" ELSE "u_ma"

\* History: when a call begins and keep is set, the tick that ended last is
\* put on record with the levels and the trend state it ran under.
Remember(keep) ==
    prev' = IF keep /\ tick.outcome # "none"
            THEN [tick |-> tick, high |-> s1_daily_high, low |-> s1_daily_low,
                  trend_status |-> trend_status,
                  allow |-> allow_replenish_based_on_trend]
            ELSE prev

\* the call starts
UpdBegin(keep) ==
    /\ pc = "idle"
    /\ pc' = FirstAwait
    /\ upd' = NoUpd
    /\ tick' = NoTick
    /\ Remember(keep)
    /\ UNCHANGED <<band, trend, current_price, base_price, now>>

\* exchange.fetch_ohlcv raises: caught in _fetch_and_calculate_s1_levels
FetchLevelsRaises ==
    /\ pc = "u_levels"
    /\ pc' = "u_ma"
    /\ upd' = [upd EXCEPT !.fetched = "failed"]
    /\ UNCHANGED <<prev, band, trend, current_price, base_price, now, tick>>

\* exchange.fetch_ohlcv returns klines
FetchLevelsReturns(klines) ==
    /\ pc = "u_levels"
    /\ LET after == LevelsAfter(klines)
       IN  /\ s1_daily_high' = after[1]
           /\ s1_daily_low' = after[2]
           /\ s1_last_data_update_ts' = after[3]
           /\ upd' = [upd EXCEPT !.klines = klines,
                                 !.fetched = IF after[4] THEN "updated" ELSE "failed"]
    /\ pc' = "u_ma"
    /\ UNCHANGED <<prev, trend, current_price, base_price, now, tick>>

Tri(b) == IF b THEN "True" ELSE "False"

\* the except clause of the trend analysis
TrendFailed ==
    /\ allow_replenish_based_on_trend' = FALSE
    /\ pc' = "idle"
    /\ upd' = [upd EXCEPT !.klines = <<>>, !.outcome = "returned"]

\* trader.get_ma_data raises
MaRaises ==
    /\ pc = "u_ma"
    /\ TrendFailed
    /\ UNCHANGED <<prev, band, trend_status, current_price, base_price, now, tick>>

\* short_ma > long_ma_for_short_trend, or None when either is None
ShortSignal(ma) ==
    IF Known(ma[1]) /\ Known(ma[2]) THEN Tri(RLess(ma[2], ma[1])) ELSE "None"

\* trader.get_ma_data returns ma = <<short_ma, long_ma_for_short_trend>>
MaReturns(ma) ==
    /\ pc = "u_ma"
    /\ trend_status' = [trend_status EXCEPT !.short_ema_bullish = ShortSignal(ma)]
    /\ pc' = "u_macd"
    /\ upd' = [upd EXCEPT !.klines = <<>>,
                          !.written = @ \cup {"short_ema_bullish"},
                          !.changed = @ \/ trend_status' # trend_status]
    /\ UNCHANGED <<prev, band, allow_replenish_based_on_trend, current_price,
                   base_price, now, tick>>

\* trader.get_macd_data raises
MacdRaises ==
    /\ pc = "u_macd"
    /\ TrendFailed
    /\ UNCHANGED <<prev, band, trend_status, current_price, base_price, now, tick>>

\* macd_line - signal_line > 0, or None when either is None
MacdSignal(macd) ==
    IF Known(macd[1]) /\ Known(macd[2])
    THEN Tri(RLess(R(0), RSub(macd[1], macd[2])))
    ELSE "None"

\* trader.get_macd_data returns macd = <<macd_line, signal_line>>; the cached
\* trader.current_price is read and, when it is None or 0, the latest price
\* is awaited before the daily candles
MacdReturns(macd) ==
    /\ pc = "u_macd"
    /\ trend_status' = [trend_status EXCEPT !.macd_bullish = MacdSignal(macd)]
    /\ upd' = [upd EXCEPT !.price = current_price,
                          !.written = @ \cup {"macd_bullish"},
                          !.changed = @ \/ trend_status' # trend_status]
    /\ pc' = IF Falsy(current_price) THEN "u_price" ELSE "u_ohlcv"
    /\ UNCHANGED <<prev, band, allow_replenish_based_on_trend, current_price,
                   base_price, now, tick>>

\* trader._get_latest_price raises
LatestPriceRaises ==
    /\ pc = "u_price"
    /\ TrendFailed
    /\ UNCHANGED <<prev, band, trend_status, current_price, base_price, now, tick>>

\* trader._get_latest_price returns p
LatestPriceReturns(p) ==
    /\ pc = "u_price"
    /\ upd' = [upd EXCEPT !.price = p]
    /\ pc' = "u_ohlcv"
    /\ UNCHANGED <<prev, band, trend, current_price, base_price, now, tick>>

\* exchange.fetch_ohlcv (daily candles for the 200-period EMA) raises
OhlcvRaises ==
    /\ pc = "u_ohlcv"
    /\ TrendFailed
    /\ UNCHANGED <<prev, band, trend_status, current_price, base_price, now, tick>>

\* The long-term signal from the local current_price, the number of daily
\* candles returned (0 for None or an empty list) and the EMA collaborator:
\* ema is <<>> when trader has no _calculate_ema, <<e>> when it returns e.
\* "raise" when trader._calculate_ema raises.
LongSignal(price, n, ema, ema_raises) ==
    IF Known(price) /\ n # 0 /\ n >= ema_200_period
    THEN IF Len(ema) = 1
         THEN IF ema_raises THEN "raise"
              ELSE IF ema[1][1] # 0 THEN Tri(RLess(ema[1], price))
              ELSE "None"
         ELSE "None"
    ELSE "None"

\* the three-way resonance
Resonance(ts) ==
    /\ ts.short_ema_bullish = "True"
    /\ ts.macd_bullish = "True"
    /\ ts.long_ema_bullish = "True"

\* exchange.fetch_ohlcv returns n daily candles; the long-term signal and
\* the combined decision are computed and the call returns
OhlcvReturns(n, ema, ema_raises) ==
    /\ pc = "u_ohlcv"
    /\ LET long == LongSignal(upd.price, n, ema, ema_raises)
       IN  IF long = "raise"
           THEN /\ TrendFailed
                /\ UNCHANGED trend_status
           ELSE /\ trend_status' = [trend_status EXCEPT !.long_ema_bullish = long]
                /\ allow_replenish_based_on_trend' = Resonance(trend_status')
                /\ pc' = "idle"
                /\ upd' = [upd EXCEPT !.outcome = "returned",
                                      !.written = @ \cup {"long_ema_bullish"},
                                      !.changed = @ \/ trend_status' # trend_status]
    /\ UNCHANGED <<prev, band, current_price, base_price, now, tick>>

(***************************************************************************)
(* Rebalance decision: check_and_execute, lines 282-308                    *)
(* Comparing or subtracting None raises TypeError; this part of the method *)
(* is outside its try block.                                               *)
(***************************************************************************)
\* a high breach that counts a price equal to the high
MutHighBreach(price, pct) ==
    Known(pct) /\ RLeq(s1_daily_high, price) /\ RLess(s1_sell_target_pct, pct)

\* current_price > self.s1_daily_high and position_pct > self.s1_sell_target_pct
HighBreach(price, pct) ==
    RLess(s1_daily_high, price) /\ RLess(s1_sell_target_pct, pct)

\* a low breach that ignores the position ratio
MutLowBreach(price, pct) == Known(pct) /\ RLess(price, s1_daily_low)

\* current_price < self.s1_daily_low and position_pct < self.s1_buy_target_pct
LowBreach(price, pct) ==
    RLess(price, s1_daily_low) /\ RLess(pct, s1_buy_target_pct)

\* position_value - total_assets * self.s1_sell_target_pct
SellValueNeeded(pv, total) == RSub(pv, RMul(total, s1_sell_target_pct))

\* total_assets * self.s1_buy_target_pct - position_value
BuyValueNeeded(pv, total) == RSub(RMul(total, s1_buy_target_pct), pv)

\* a sell amount without the cap by the available balance
MutSellAmount(needed, price, bal) == RDiv(needed, price)

\* min(sell_value_needed / current_price, bnb_balance)
SellAmount(needed, price, bal) == PyMin(RDiv(needed, price), bal)

\* buy_value_needed / current_price
BuyAmount(needed, price) == RDiv(needed, price)

Raised == [raised |-> TRUE, action |-> "NONE", amount |-> R(0)]
Decided(a, x) == [raised |-> FALSE, action |-> a, amount |-> x]

\* the SELL branch, entered with the high breached
SellBranch(price, pv, total, bal) ==
    IF ~Known(pv) THEN Raised
    ELSE LET needed == SellValueNeeded(pv, total)
         IN  IF needed[1] > 0
             THEN IF ~Known(bal) THEN Raised
                  ELSE Decided("SELL", SellAmount(needed, price, bal))
             ELSE Decided("NONE", R(0))

\* a BUY branch that replenishes only under the three-way resonance
MutBuyBranch(price, pv, total) ==
    IF ~Known(pv) THEN Raised
    ELSE LET needed == BuyValueNeeded(pv, total)
         IN  IF needed[1] > 0 /\ allow_replenish_based_on_trend
             THEN Decided("BUY", BuyAmount(needed, price))
             ELSE Decided("NONE", R(0))

\* the BUY branch, entered with the low breached
BuyBranch(price, pv, total) ==
    IF ~Known(pv) THEN Raised
    ELSE LET needed == BuyValueNeeded(pv, total)
         IN  IF needed[1] > 0
             THEN Decided("BUY", BuyAmount(needed, price))
             ELSE Decided("NONE", R(0))

\* the decision with the low level checked before the high level
MutDecide(price, pct, pv, total, bal) ==
    IF RLess(price, s1_daily_low) /\ ~Known(pct) THEN Raised
    ELSE IF RLess(price, s1_daily_low) /\ RLess(pct, s1_buy_target_pct)
         THEN BuyBranch(price, pv, total)
    ELSE IF RLess(s1_daily_high, price) /\ ~Known(pct) THEN Raised
    ELSE IF RLess(s1_daily_high, price) /\ RLess(s1_sell_target_pct, pct)
         THEN SellBranch(price, pv, total, bal)
    ELSE Decided("NONE", R(0))

\* The if / elif of lines 287-308, for a known positive price and known
\* positive total assets.  `and` evaluates its right operand only when the
\* left one is true, so an unknown position_pct raises only then.
Decide(price, pct, pv, total, bal) ==
    IF RLess(s1_daily_high, price) /\ ~Known(pct) THEN Raised
    ELSE IF HighBreach(price, pct) THEN SellBranch(price, pv, total, bal)
    ELSE IF RLess(price, s1_daily_low) /\ ~Known(pct) THEN Raised
    ELSE IF LowBreach(price, pct) THEN BuyBranch(price, pv, total)
    ELSE Decided("NONE", R(0))

\* s1_action != 'NONE' and s1_trade_amount_bnb > 1e-9
Triggers(d) == d.action # "NONE" /\ RLess(Epsilon, d.amount)

(***************************************************************************)
(* Adjustment executor: _execute_s1_adjustment up to the order placement   *)
(* adjust: [has, raises, factor], the trader's _adjust_amount_precision    *)
(*   (absent, raising, or flooring to multiples of 1/factor);              *)
(* info:   [present, has_cost, cost_min, has_amount, amount_min], the      *)
(*   trader's symbol_info and its limits.cost.min and limits.amount.min.   *)
(***************************************************************************)
\* the amount after the precision adjustment
AdjustedAmount(amount, adjust) ==
    IF adjust.has THEN FloorTo(amount, adjust.factor)
    ELSE FloorTo(amount, FallbackFactor)

\* limits.get('cost', {}).get('min', min_notional)
MinNotional(info) ==
    IF info.present /\ info.has_cost THEN info.cost_min ELSE R(DefaultMinNotional)

\* limits.get('amount', {}).get('min', min_amount_limit)
MinAmountLimit(info) ==
    IF info.present /\ info.has_amount THEN info.amount_min
    ELSE <<1, DefaultMinAmountDen>>

\* adjusted_amount <= 0
AmountRejected(adjusted) == adjusted[1] <= 0

\* an executor without the minimum-notional check
MutBelowMinNotional(notional, min_notional) == FALSE

\* adjusted_amount < min_amount_limit
BelowMinAmount(adjusted, min_amount) == RLess(adjusted, min_amount)

\* target_amount_usdt < min_notional
BelowMinNotional(notional, min_notional) == RLess(notional, min_notional)

\* not current_price or current_price <= 0
PriceInvalid(price) == Falsy(price) \/ price[1] <= 0

Rejected(t) == [t EXCEPT !.result = "False"]

\* The executor run on the tick record t, which holds the side and the raw
\* amount: the record at the return (result "False") or at the await of
\* trader.execute_order (calls = 1).  Every exception is caught and returns
\* False.
Executor(t, adjust, info) ==
    LET t0 == [t EXCEPT !.executor = TRUE, !.info = info]
    IN  IF adjust.has /\ adjust.raises THEN Rejected(t0)
        ELSE
        LET adjusted == AdjustedAmount(t.amount, adjust)
            t1 == [t0 EXCEPT !.adjusted = adjusted]
        IN  IF AmountRejected(adjusted) THEN Rejected(t1)
            ELSE
            LET t2 == [t1 EXCEPT !.xprice = current_price]
            IN  IF PriceInvalid(current_price) THEN Rejected(t2)
                ELSE
                LET notional == RMul(adjusted, current_price)
                    t3 == [t2 EXCEPT !.notional = notional]
                    min_notional == MinNotional(info)
                    min_amount_limit == MinAmountLimit(info)
                IN  IF ~Known(min_amount_limit) THEN Rejected(t3)
                    ELSE IF BelowMinAmount(adjusted, min_amount_limit) THEN Rejected(t3)
                    ELSE IF ~Known(min_notional) THEN Rejected(t3)
                    ELSE IF BelowMinNotional(notional, min_notional) THEN Rejected(t3)
                    ELSE [t3 EXCEPT !.calls = 1, !.side = t.action]

(***************************************************************************)
(* check_and_execute                                                       *)
(***************************************************************************)
Returned(t) == [t EXCEPT !.outcome = "returned"]

\* an executor that moves the grid's base price to the execution price
MutBasePriceAfterOrder == tick.xprice

\* the grid's base price when an S1 order has been processed
BasePriceAfterOrder == base_price

\* a tick that moves the high level to the price it traded at
MutTickKeeps ==
    /\ s1_daily_high' = IF tick.calls = 1 THEN tick.price ELSE s1_daily_high
    /\ UNCHANGED <<s1_daily_low, s1_last_data_update_ts, trend>>

\* check_and_execute and _execute_s1_adjustment assign no attribute of self
TickKeeps == UNCHANGED <<band, trend>>

\* a level test that asks for the high only
MutLevelsMissing == s1_daily_high = None

\* self.s1_daily_high is None or self.s1_daily_low is None
LevelsMissing == s1_daily_high = None \/ s1_daily_low = None

\* a test of the total assets that lets 0 and negative totals through
MutAssetsInvalid(total) == ~Known(total)

\* total_assets <= 0, which raises inside the try block for None
AssetsInvalid(total) == ~Known(total) \/ total[1] <= 0

\* The call starts: without both levels, or without a positive cached
\* price, it returns; otherwise it awaits the position and balance queries.
TickBegin(keep) ==
    /\ pc = "idle"
    /\ upd' = NoUpd
    /\ IF LevelsMissing
       THEN /\ tick' = Returned(NoTick)
            /\ pc' = "idle"
       ELSE IF PriceInvalid(current_price)
       THEN /\ tick' = Returned([NoTick EXCEPT !.price = current_price])
            /\ pc' = "idle"
       ELSE /\ tick' = [NoTick EXCEPT !.price = current_price]
            /\ pc' = "t_state"
    /\ Remember(keep)
    /\ TickKeeps
    /\ UNCHANGED <<current_price, base_price, now>>

\* one of _get_position_ratio, _get_position_value, _get_total_assets,
\* get_available_balance raises: caught, the tick returns
TickStateRaises ==
    /\ pc = "t_state"
    /\ tick' = Returned(tick)
    /\ pc' = "idle"
    /\ TickKeeps
    /\ UNCHANGED <<prev, current_price, base_price, now, upd>>

\* The four queries return.  Unknown total assets raise inside the try
\* block (total_assets <= 0) and the tick returns; otherwise the decision
\* is taken and, when it triggers, the executor runs up to its await of
\* trader.execute_order.
TickStateReturns(pct, pv, total, bal, adjust, info) ==
    /\ pc = "t_state"
    /\ TickKeeps
    /\ UNCHANGED <<prev, current_price, base_price, now, upd>>
    /\ LET t0 == [tick EXCEPT !.pct = pct, !.pv = pv, !.total = total, !.bal = bal]
       IN  IF AssetsInvalid(total)
           THEN /\ tick' = Returned(t0)
                /\ pc' = "idle"
           ELSE
           LET d == Decide(tick.price, pct, pv, total, bal)
               t1 == [t0 EXCEPT !.gathered = TRUE, !.action = d.action,
                                !.amount = d.amount]
           IN  IF d.raised
               THEN /\ tick' = [t1 EXCEPT !.outcome = "raised"]
                    /\ pc' = "idle"
               ELSE IF ~Triggers(d)
               THEN /\ tick' = Returned(t1)
                    /\ pc' = "idle"
               ELSE
               LET t2 == Executor(t1, adjust, info)
               IN  IF t2.calls = 1
                   THEN /\ tick' = t2
                        /\ pc' = "t_order"
                   ELSE /\ tick' = Returned(t2)
                        /\ pc' = "idle"

\* trader.execute_order raises: caught in the executor, which returns False
OrderRaises ==
    /\ pc = "t_order"
    /\ tick' = Returned(Rejected(tick))
    /\ pc' = "idle"
    /\ base_price' = BasePriceAfterOrder
    /\ TickKeeps
    /\ UNCHANGED <<prev, current_price, now, upd>>

\* trader.execute_order returns: with_id when the result is a dict with an
\* id, fields_ok when its price, filled and cost convert with float() (they
\* are converted only when the trader has an order_tracker)
OrderReturns(with_id, fields_ok) ==
    /\ pc = "t_order"
    /\ tick' = Returned([tick EXCEPT !.result = Tri(with_id /\ fields_ok)])
    /\ pc' = "idle"
    /\ base_price' = BasePriceAfterOrder
    /\ TickKeeps
    /\ UNCHANGED <<prev, current_price, now, upd>>

(***************************************************************************)
(* The host and the clock                                                  *)
(***************************************************************************)
\* the host's price feed updates trader.current_price
HostPrice(p) ==
    /\ current_price' = p
    /\ UNCHANGED <<prev, band, trend, base_price, now, pc, upd, tick>>

\* the grid strategy moves its base price
HostGrid(b) ==
    /\ base_price' = b
    /\ UNCHANGED <<prev, band, trend, current_price, now, pc, upd, tick>>

\* time passes
AdvanceTime(d) ==
    /\ now + d <= MaxDays * daily_update_interval
    /\ now' = now + d
    /\ UNCHANGED <<prev, band, trend, current_price, base_price, pc, upd, tick>>

(***************************************************************************)
(* Inputs: what the collaborators return                                   *)
(***************************************************************************)
Rep(c, n) == [i \in 1..n |-> c]

SeqsUpTo(S, n) == UNION {[1..k -> S] : k \in 0..n}

\* well-formed daily candles (high >= low)
ValidCandles == {<<R(20), R(10)>>, <<R(40), R(10)>>, <<R(40), R(30)>>}

\* candles of two price ranges, and candles with a field that does not parse
LevelCandles == {<<R(20), R(10)>>, <<R(40), R(30)>>, <<R(40), None>>, <<None, R(10)>>}

Prices == {None, R(0), R(0 - 1), R(10), R(20), R(25), R(45)}

\* <<short_ma, long_ma>> of get_ma_data, <<macd_line, signal_line>> of
\* get_macd_data: either one unknown, above, below, equal
MaPairs == {<<None, R(1)>>, <<R(1), None>>, <<R(2), R(1)>>, <<R(1), R(2)>>,
            <<R(1), R(1)>>}

\* <<number of daily candles, EMA collaborator, whether it raises>>: no
\* candles, one candle too few, no _calculate_ema, an EMA of 0, below and
\* above the price, a raising _calculate_ema
LongInputs == {<<0, <<R(20)>>, FALSE>>,
               <<ema_200_period - 1, <<R(20)>>, FALSE>>,
               <<ema_200_period, <<>>, FALSE>>,
               <<ema_200_period, <<R(0)>>, FALSE>>,
               <<ema_200_period, <<R(20)>>, FALSE>>,
               <<ema_200_period, <<R(30)>>, FALSE>>,
               <<ema_200_period, <<R(20)>>, TRUE>>}



\* the trader's precision adjustment and symbol metadata, as <<adjust, info>>
Traders ==
    {<<NoAdjust, NoInfo>>,
     <<[has |-> TRUE, raises |-> TRUE, factor |-> 1], NoInfo>>,
     <<[has |-> TRUE, raises |-> FALSE, factor |-> 10], NoInfo>>,
     <<NoAdjust, [present |-> TRUE, has_cost |-> TRUE, cost_min |-> R(1),
                  has_amount |-> TRUE, amount_min |-> R(5)]>>,
     <<NoAdjust, [present |-> TRUE, has_cost |-> TRUE, cost_min |-> None,
                  has_amount |-> FALSE, amount_min |-> None]>>}

\* the whole program on few inputs
Few ==
    [klines  |-> {Rep(<<R(20), R(10)>>, s1_lookback + 1),
                  Rep(<<R(40), R(30)>>, s1_lookback + 2),
                  Rep(<<R(40), None>>, s1_lookback + 1),
                  Rep(<<R(40), R(30)>>, s1_lookback)},
     ma      |-> {<<R(2), R(1)>>, <<None, R(1)>>},
     macd    |-> {<<R(2), R(1)>>},
     latest  |-> {R(25)},
     longs   |-> {<<ema_200_period, <<R(20)>>, FALSE>>},
     prices  |-> {None, R(10), R(45)},
     bases   |-> {R(30), R(31)},
     steps   |-> {daily_update_interval},
     pcts    |-> {None, <<3, 5>>},
     pvs     |-> {R(700)},
     totals  |-> {R(1000)},
     bals    |-> {R(100)},
     traders |-> {<<NoAdjust, NoInfo>>},
     history |-> FALSE]

\* every candle sequence the exchange can return for limit = lookback + 2
Levels == [Few EXCEPT !.klines = SeqsUpTo(LevelCandles, s1_lookback + 2),
                      !.ma = {<<R(2), R(1)>>}]

\* well-formed candles and every outcome of the trend collaborators
Refresh == [Few EXCEPT !.klines = SeqsUpTo(ValidCandles, s1_lookback + 2),
                       !.ma = MaPairs,
                       !.macd = MaPairs,
                       !.latest = {None, R(0), R(25)},
                       !.longs = LongInputs,
                       !.prices = {None, R(25)}]

\* every input of a tick
Ticks == [Few EXCEPT !.prices = Prices,
                     !.pcts = {None, <<2, 5>>, <<1, 2>>, <<3, 5>>, <<7, 10>>},
                     !.pvs = {None, R(500), R(505), R(700)},
                     !.totals = {None, R(0), R(1000)},
                     !.bals = {None, <<1, 2 * EpsilonDen>>, Epsilon,
                               <<2, EpsilonDen>>, <<1, 100>>, R(100)},
                     !.traders = Traders]

\* pairs of ticks, with trend analyses between them: the ticks that ended
\* are kept on record; no candles arrive
Pair == [Few EXCEPT !.klines = {<<>>},
                    !.ma = {<<R(2), R(1)>>, <<R(1), R(2)>>},
                    !.pcts = {<<2, 5>>, <<3, 5>>},
                    !.pvs = {R(505), R(700)},
                    !.history = TRUE]

\* clock steps of about half the refresh interval
Clock == [Few EXCEPT !.steps = {daily_update_interval \div 2,
                               daily_update_interval - daily_update_interval \div 2}]

\* the bands of a tick: unset, half set, ordinary, and with the low above
\* the high
TickBands == {<<None, None>>, <<R(40), None>>, <<R(20), R(10)>>,
              <<R(40), R(30)>>, <<R(20), R(30)>>}

(***************************************************************************)
(* Specifications                                                          *)
(***************************************************************************)
UpdateStep(D) ==
    \/ UpdBegin(D.history)
    \/ FetchLevelsRaises
    \/ \E k \in D.klines : FetchLevelsReturns(k)
    \/ MaRaises
    \/ \E ma \in D.ma : MaReturns(ma)
    \/ MacdRaises
    \/ \E macd \in D.macd : MacdReturns(macd)
    \/ LatestPriceRaises
    \/ \E p \in D.latest : LatestPriceReturns(p)
    \/ OhlcvRaises
    \/ \E in \in D.longs : OhlcvReturns(in[1], in[2], in[3])

TickStep(D) ==
    \/ TickBegin(D.history)
    \/ TickStateRaises
    \/ \E pct \in D.pcts, pv \in D.pvs, total \in D.totals, bal \in D.bals,
          tr \in D.traders :
            TickStateReturns(pct, pv, total, bal, tr[1], tr[2])
    \/ OrderRaises
    \/ \E with_id \in BOOLEAN, fields_ok \in BOOLEAN : OrderReturns(with_id, fields_ok)

PriceStep(D) == \E p \in D.prices : HostPrice(p)

GridStep(D) == \E b \in D.bases : HostGrid(b)

ClockStep(D) == \E d \in D.steps : AdvanceTime(d)

\* the whole program
Next == UpdateStep(Few) \/ TickStep(Few) \/ PriceStep(Few) \/ GridStep(Few) \/ ClockStep(Few)

Spec == Init /\ [][Next]_vars

\* the refresh on every candle sequence
NextLevels == UpdateStep(Levels) \/ ClockStep(Levels)

SpecLevels == Init /\ [][NextLevels]_vars

\* the refresh on well-formed candles, with every trend outcome
NextRefresh == UpdateStep(Refresh) \/ PriceStep(Refresh) \/ ClockStep(Refresh)

SpecRefresh == Init /\ [][NextRefresh]_vars

\* the ticks of a controller whose band is any of TickBands
InitTick ==
    /\ \E b \in TickBands :
        /\ s1_daily_high = b[1]
        /\ s1_daily_low = b[2]
        /\ s1_last_data_update_ts = IF Known(b[1]) /\ Known(b[2])
                                    THEN daily_update_interval ELSE 0
    /\ trend_status = [short_ema_bullish |-> "None", macd_bullish |-> "None",
                       long_ema_bullish |-> "None"]
    /\ allow_replenish_based_on_trend = FALSE
    /\ current_price = None
    /\ base_price = R(30)
    /\ now = daily_update_interval
    /\ pc = "idle"
    /\ upd = NoUpd
    /\ tick = NoTick
    /\ prev = NoPrev

NextTick == TickStep(Ticks) \/ PriceStep(Ticks)

SpecTick == InitTick /\ [][NextTick]_vars

\* ticks and trend analyses of a controller whose band is any of TickBands
NextPair == UpdateStep(Pair) \/ TickStep(Pair) \/ PriceStep(Pair)

SpecPair == InitTick /\ [][NextPair]_vars

\* the refresh under a clock that advances by less than the interval
NextClock == UpdateStep(Clock) \/ ClockStep(Clock)

SpecClock == Init /\ [][NextClock]_vars

(***************************************************************************)
(* Properties                                                              *)
(***************************************************************************)
BandSet == Known(s1_daily_high) /\ Known(s1_daily_low)

\* positions of the s1_lookback candles that end at the second-to-last one
WindowOf(k) == (Len(k) - s1_lookback)..(Len(k) - 1)

\* C1: after a successful refresh the high is the greatest high and the low
\* the least low of exactly the s1_lookback candles that end at the
\* second-to-last candle of the fetched sequence; the last candle and the
\* candles before the window play no part.
C1_BandIsWindowExtremes ==
    (pc = "u_ma" /\ upd.fetched = "updated") =>
        LET k == upd.klines
        IN  /\ Len(k) >= s1_lookback + 1
            /\ \A i \in WindowOf(k) :
                 /\ Known(k[i][1]) /\ RLeq(k[i][1], s1_daily_high)
                 /\ Known(k[i][2]) /\ RLeq(s1_daily_low, k[i][2])
            /\ \E i \in WindowOf(k) : k[i][1] = s1_daily_high
            /\ \E i \in WindowOf(k) : k[i][2] = s1_daily_low

\* a refresh succeeded on lookback + 2 candles whose oldest and newest
\* candles both have a high above the computed one
C1_Witness ==
    /\ pc = "u_ma"
    /\ upd.fetched = "updated"
    /\ Len(upd.klines) = s1_lookback + 2
    /\ Known(upd.klines[1][1])
    /\ RLess(s1_daily_high, upd.klines[1][1])
    /\ Known(upd.klines[Len(upd.klines)][1])
    /\ RLess(s1_daily_high, upd.klines[Len(upd.klines)][1])

\* the inputs of the tick on record, when its decision was reached
TickHigh == Known(tick.pct) /\ RLess(s1_daily_high, tick.price)
                            /\ RLess(s1_sell_target_pct, tick.pct)
TickLow == Known(tick.pct) /\ RLess(tick.price, s1_daily_low)
                           /\ RLess(tick.pct, s1_buy_target_pct)
TickSellValue == RSub(tick.pv, RMul(tick.total, s1_sell_target_pct))
TickBuyValue == RSub(RMul(tick.total, s1_buy_target_pct), tick.pv)
TickSellSize ==
    LET wanted == RDiv(TickSellValue, tick.price)
    IN  IF RLess(tick.bal, wanted) THEN tick.bal ELSE wanted
TickBuySize == RDiv(TickBuyValue, tick.price)

TickSells ==
    /\ TickHigh
    /\ Known(tick.pv) /\ TickSellValue[1] > 0
    /\ Known(tick.bal) /\ RLess(Epsilon, TickSellSize)

TickBuys ==
    /\ ~TickHigh
    /\ TickLow
    /\ Known(tick.pv) /\ TickBuyValue[1] > 0
    /\ RLess(Epsilon, TickBuySize)

\* C2: in a tick with a populated band, a valid price and positive total
\* assets, the executor is invoked with SELL exactly when the price is above
\* the high, the position ratio above the sell target, the value to sell
\* positive and the size above the dust epsilon; the size is then the lesser
\* of value / price and the available balance, so at most the balance.
C2_SellIffHighBreach ==
    tick.gathered =>
        /\ (tick.executor /\ tick.action = "SELL") <=> TickSells
        /\ TickSells => tick.amount = TickSellSize /\ RLeq(tick.amount, tick.bal)

\* a SELL went to the executor with its size cut down to the balance
C2_Witness ==
    /\ tick.gathered /\ tick.executor /\ tick.action = "SELL"
    /\ tick.amount = tick.bal
    /\ RLess(tick.bal, RDiv(TickSellValue, tick.price))

\* C3: in such a tick the executor is invoked with BUY exactly when the
\* SELL condition is false, the price is below the low, the position ratio
\* below the buy target, the value to buy positive and the size above the
\* dust epsilon; the size is value / price, whatever the available balance.
C3_BuyIffLowBreach ==
    tick.gathered =>
        /\ (tick.executor /\ tick.action = "BUY") <=> TickBuys
        /\ TickBuys => tick.amount = TickBuySize

\* a BUY went to the executor with a size above the available balance
C3_Witness ==
    /\ tick.gathered /\ tick.executor /\ tick.action = "BUY"
    /\ Known(tick.bal)
    /\ RLess(tick.bal, tick.amount)

\* C4: a tick calls trader.execute_order at most once, and a tick in which
\* the high breach and the low breach both hold places no BUY.
C4_SellBeforeBuy ==
    /\ tick.calls <= 1
    /\ (tick.gathered /\ TickHigh /\ TickLow) =>
           /\ tick.action # "BUY"
           /\ tick.side # "BUY"

\* both breaches held and the tick placed a SELL
C4_Witness ==
    /\ tick.gathered /\ TickHigh /\ TickLow
    /\ tick.calls = 1 /\ tick.side = "SELL"

\* C5: with the price inside the band, bounds included, the tick neither
\* invokes the executor nor places an order, whatever the position ratio,
\* position value, total assets and available balance are.
C5_InBandNoAction ==
    (BandSet /\ Known(tick.price)
        /\ RLeq(s1_daily_low, tick.price) /\ RLeq(tick.price, s1_daily_high)) =>
            /\ ~tick.executor
            /\ tick.calls = 0
            /\ tick.action = "NONE"

\* a tick at a price equal to the high gathered its inputs, with a position
\* ratio above the sell target, and returned
C5_Witness ==
    /\ BandSet /\ tick.gathered
    /\ tick.price = s1_daily_high
    /\ Known(tick.pct) /\ RLess(s1_sell_target_pct, tick.pct)
    /\ Known(tick.pv) /\ TickSellValue[1] > 0
    /\ tick.outcome = "returned"

\* C6: between calls, allow_replenish_based_on_trend is true exactly when
\* the three stored trend signals are all true.
C6_AllowIffResonance ==
    pc = "idle" =>
        (allow_replenish_based_on_trend <=>
            (/\ trend_status.short_ema_bullish = "True"
             /\ trend_status.macd_bullish = "True"
             /\ trend_status.long_ema_bullish = "True"))

\* the limits the executor applies in the tick on record
TickMinNotional ==
    IF tick.info.present /\ tick.info.has_cost THEN tick.info.cost_min
    ELSE R(DefaultMinNotional)
TickMinAmount ==
    IF tick.info.present /\ tick.info.has_amount THEN tick.info.amount_min
    ELSE <<1, DefaultMinAmountDen>>

\* the order passes the three checks of the executor
TickOrderAdmissible ==
    /\ Known(tick.adjusted) /\ tick.adjusted[1] > 0
    /\ Known(tick.xprice)
    /\ Known(TickMinAmount) /\ RLeq(TickMinAmount, tick.adjusted)
    /\ Known(TickMinNotional)
    /\ RLeq(TickMinNotional, RMul(tick.adjusted, tick.xprice))

\* C7: the executor calls trader.execute_order only with a rounded size
\* above 0 and not below the minimum amount, and a notional (rounded size
\* times current price) not below the minimum notional, the limits being
\* those of the symbol metadata or 0.0001 and 10; an invocation that fails
\* one of the checks returns failure without calling trader.execute_order.
C7_OrderOnlyWithinLimits ==
    /\ tick.calls = 1 => tick.executor /\ TickOrderAdmissible
    /\ (tick.executor /\ ~TickOrderAdmissible) =>
           tick.calls = 0 /\ tick.result = "False"

\* the executor rejected an order of a valid size whose notional is below
\* the default minimum of 10
C7_Witness ==
    /\ tick.executor /\ ~tick.info.present
    /\ Known(tick.notional)
    /\ RLeq(<<1, DefaultMinAmountDen>>, tick.adjusted)
    /\ RLess(tick.notional, R(DefaultMinNotional))
    /\ tick.calls = 0 /\ tick.result = "False"

\* C8: once both levels are set, the high is not below the low, whatever
\* refreshes succeeded or failed on well-formed candles.
C8_HighNotBelowLow == BandSet => RLeq(s1_daily_low, s1_daily_high)

\* a refresh failed after the band was set, the high above the low
C8_Witness ==
    /\ BandSet /\ RLess(s1_daily_low, s1_daily_high)
    /\ pc = "u_ma" /\ upd.fetched = "failed"

\* C9: update_daily_s1_levels and check_and_execute return to the caller
\* without raising, whatever a collaborator raises or returns, and a tick
\* that failed before the order placement has placed no order.
C9_EntryPointsReturn ==
    /\ upd.outcome # "raised"
    /\ tick.outcome # "raised"
    /\ (tick.outcome = "returned" /\ ~tick.executor) => tick.calls = 0

\* C10: a step that changes the grid's base price is no step of the
\* controller: it leaves the controller's state, its position in the running
\* call and the locals of that call as they are.
C10_BasePriceUntouched == [][base_price' # base_price => UNCHANGED controller]_vars

\* an adjustment order was placed and processed
C10_Witness == pc = "idle" /\ tick.calls = 1 /\ tick.result = "True"

\* the tick on record has taken its decision; the live inputs of a tick
TickEnded(t) == t.outcome # "none" \/ t.calls = 1
TickInputs(t) == <<t.price, t.pct, t.pv, t.total, t.bal>>

\* the tick on record and the tick before it ran with the same levels and
\* the same live inputs
SameInputs ==
    /\ TickEnded(prev.tick) /\ TickEnded(tick)
    /\ prev.high = s1_daily_high /\ prev.low = s1_daily_low
    /\ TickInputs(prev.tick) = TickInputs(tick)

\* C11: no step of a tick changes the levels, their timestamp, the trend
\* signals or the replenish flag; and a tick that runs with the same levels,
\* price, position ratio, position value, total assets and balance as the
\* tick before it takes the same action with the same size, and invokes the
\* executor exactly when that tick did, whatever became of its order.
C11_TickIdempotent ==
    /\ [][tick' # tick => UNCHANGED <<band, trend>>]_vars
    /\ [](SameInputs =>
            /\ tick.action = prev.tick.action
            /\ tick.amount = prev.tick.amount
            /\ tick.executor = prev.tick.executor)

\* a tick decided the same SELL as the tick before it, whose order had been
\* placed and had failed
C11_Witness ==
    /\ SameInputs
    /\ tick.action = "SELL" /\ tick.gathered
    /\ prev.tick.calls = 1 /\ prev.tick.result = "False"

\* C12: when the decision of a tick is SELL or BUY, a size below 1e-9 does
\* not reach the executor and a size of at least 1e-9 does.
C12_DustEpsilon ==
    (tick.gathered /\ tick.action # "NONE") =>
        /\ RLess(tick.amount, Epsilon) => ~tick.executor
        /\ RLeq(Epsilon, tick.amount) => tick.executor

\* C13: as long as a level is missing, no tick is waiting for the position,
\* asset and balance queries or for trader.execute_order, and the tick on
\* record has gathered nothing, invoked no executor and placed no order.
C13_IdleUntilBandSet ==
    ~BandSet =>
        /\ pc \notin {"t_state", "t_order"}
        /\ ~tick.gathered /\ tick.pct = None /\ tick.total = None
        /\ ~tick.executor
        /\ tick.calls = 0

\* a tick returned at a valid price after a failed refresh had set the high
\* and not the low
C13_Witness ==
    /\ Known(s1_daily_high) /\ ~Known(s1_daily_low)
    /\ Known(current_price) /\ current_price[1] > 0
    /\ pc = "idle" /\ tick.outcome = "returned"

\* C14: a step in which _fetch_and_calculate_s1_levels ends in failure
\* leaves the high, the low and the timestamp of the last update as they
\* were.
C14_FailureKeepsBand ==
    [][(pc = "u_levels" /\ upd'.fetched = "failed") => UNCHANGED band]_vars

TrendKeys == {"short_ema_bullish", "macd_bullish", "long_ema_bullish"}

\* C15: when update_daily_s1_levels has returned, either all three trend
\* signals were assigned in that call or the three stored signals are the
\* ones from before the call.
C15_TrendReplacedWhole ==
    (pc = "idle" /\ upd.outcome = "returned") =>
        upd.written = TrendKeys \/ ~upd.changed

\* the interval has elapsed since the last successful refresh
IntervalElapsed == now - s1_last_data_update_ts >= daily_update_interval

\* C16: a call of update_daily_s1_levels begins with the fetch of the daily
\* candles exactly when at least the interval has passed since the stored
\* timestamp; the timestamp changes only in a step that ends a refresh with
\* success, and becomes the time of that step; so a fetch is awaited only
\* with the interval elapsed, and after a failed refresh it is still
\* elapsed, which makes the next call fetch again.
C16_RefreshWhenDue ==
    /\ [][(pc = "idle" /\ pc' \in {"u_levels", "u_ma"}) =>
            (pc' = "u_levels" <=> IntervalElapsed)]_vars
    /\ [][s1_last_data_update_ts' # s1_last_data_update_ts =>
            /\ pc = "u_levels" /\ upd'.fetched = "updated"
            /\ s1_last_data_update_ts' = now]_vars
    /\ [](pc = "u_levels" => IntervalElapsed)
    /\ [](upd.fetched = "failed" => IntervalElapsed)

\* a call skipped the fetch one time unit before the interval had elapsed
\* since a successful refresh
C16_Witness ==
    /\ pc = "u_ma" /\ upd.fetched = "no"
    /\ s1_last_data_update_ts > 0
    /\ now - s1_last_data_update_ts = daily_update_interval - 1

\* the awaits of the trend analysis; a call that began with the refresh
\* not due is at one of them without a fetch on record
TrendAwaits == {"u_ma", "u_macd", "u_price", "u_ohlcv"}
TrendOnly == upd.fetched = "no" /\ pc \in TrendAwaits

\* a call of update_daily_s1_levels begins in this step
UpdBegins ==
    /\ pc = "idle" /\ upd' = NoUpd /\ tick' = NoTick
    /\ UNCHANGED <<current_price, base_price, now>>

\* C17, as claimed: a call of update_daily_s1_levels in which the refresh
\* is not due awaits no trend collaborator and leaves the trend signals
\* and the replenish flag as they were.
C17_TrendOnRefreshCadence ==
    /\ [](~TrendOnly)
    /\ [][TrendOnly => UNCHANGED trend]_vars

\* C17, amended: a call in which the refresh is not due awaits no fetch of
\* the band's candles and leaves the levels and their timestamp as they
\* were, but it does run the trend analysis: its first await is
\* trader.get_ma_data, and it returns either with all three signals assigned
\* and the flag equal to their conjunction, or, a collaborator having raised,
\* with the flag false.
C17_TrendOnEveryCall ==
    /\ [][(UpdBegins /\ ~IntervalElapsed) =>
            pc' = "u_ma" /\ UNCHANGED <<band, trend>>]_vars
    /\ [][TrendOnly => (UNCHANGED band /\ pc' # "u_levels")]_vars
    /\ []((pc = "idle" /\ upd.outcome = "returned" /\ upd.fetched = "no") =>
            IF upd.written = TrendKeys
            THEN allow_replenish_based_on_trend <=>
                    (/\ trend_status.short_ema_bullish = "True"
                     /\ trend_status.macd_bullish = "True"
                     /\ trend_status.long_ema_bullish = "True")
            ELSE ~allow_replenish_based_on_trend)

\* a call in which the refresh was not due has returned with all three
\* signals assigned, one of them changed
C17_Witness ==
    /\ pc = "idle" /\ upd.outcome = "returned" /\ upd.fetched = "no"
    /\ ~IntervalElapsed
    /\ upd.written = TrendKeys /\ upd.changed

\* the tick on record ran under another trend state than the tick before it
TrendDiffers ==
    \/ prev.trend_status # trend_status
    \/ prev.allow # allow_replenish_based_on_trend

\* C18: of two ticks with the same levels and live inputs that ran under
\* different trend signals or a different replenish flag, the second takes
\* the same action with the same size and invokes the executor exactly when
\* the first did; when the price read by the executor is the same too, it
\* makes the same call of trader.execute_order.  A tick whose inputs call for
\* a BUY invokes the executor with BUY while the replenish flag is false.
C18_DecisionIgnoresTrend ==
    /\ (SameInputs /\ TrendDiffers) =>
            /\ tick.action = prev.tick.action
            /\ tick.amount = prev.tick.amount
            /\ tick.executor = prev.tick.executor
            /\ tick.xprice = prev.tick.xprice =>
                    /\ tick.calls = prev.tick.calls
                    /\ tick.side = prev.tick.side
                    /\ tick.notional = prev.tick.notional
    /\ (tick.gathered /\ TickBuys /\ ~allow_replenish_based_on_trend) =>
            tick.executor /\ tick.action = "BUY"

\* a BUY order was placed under a false replenish flag, as it had been
\* placed for the same inputs under a true one
C18_Witness ==
    /\ SameInputs
    /\ prev.allow /\ ~allow_replenish_based_on_trend
    /\ prev.tick.calls = 1 /\ prev.tick.side = "BUY"
    /\ tick.calls = 1 /\ tick.side = "BUY"

\* C19: with both levels set, a tick that read an unknown, zero or negative
\* price awaits no query, and a tick that was told total assets of zero or
\* less returns at once; neither decides an action, invokes the executor or
\* places an order.
C19_InvalidInputsAbort ==
    BandSet =>
        /\ (~Known(tick.price) \/ tick.price[1] <= 0) =>
                /\ pc \notin {"t_state", "t_order"}
                /\ ~tick.gathered /\ tick.action = "NONE"
                /\ ~tick.executor /\ tick.calls = 0
        /\ (Known(tick.total) /\ tick.total[1] <= 0) =>
                /\ pc = "idle" /\ tick.outcome = "returned"
                /\ ~tick.gathered /\ tick.action = "NONE"
                /\ ~tick.executor /\ tick.calls = 0

\* a tick returned on total assets of zero with the price above the high,
\* the position ratio above the sell target and a position to sell
C19_Witness ==
    /\ BandSet /\ tick.outcome = "returned"
    /\ Known(tick.total) /\ tick.total[1] = 0
    /\ RLess(s1_daily_high, tick.price)
    /\ Known(tick.pct) /\ RLess(s1_sell_target_pct, tick.pct)
    /\ Known(tick.pv) /\ tick.pv[1] > 0
    /\ Known(tick.bal) /\ RLess(Epsilon, tick.bal)

\* the value by which the position is off the target of the side decided
TickDeviation == IF tick.side = "SELL" THEN TickSellValue ELSE TickBuyValue

\* C20: the notional of an order placed by a tick is at most the deviation
\* computed in that tick, whenever the host updates the price.
C20_OrderWithinDeviation ==
    tick.calls = 1 => RLeq(tick.notional, TickDeviation)

====
